---- MODULE Spec2Model ----
(***************************************************************************)
(* Convergence-order engine of ncviewer: compute_table                     *)
(* (src/src/_table_order.py), coarsen_grid (src/src/_utils.py) and         *)
(* compute_error (src/src/_math.py).                                       *)
(*                                                                         *)
(* Numbers are exact rationals <<n, d>> (d > 0, lowest terms).  An array   *)
(* is [rank, shape, v]: v is a sequence of rationals for rank 1 and a      *)
(* sequence of rows for rank 2; a rank-3 array carries its shape only.     *)
(* A call that can raise returns [ok |-> FALSE, exc |-> <exception>].      *)
(***************************************************************************)
EXTENDS Integers, Sequences, FiniteSets, TLC

\* ------------------------------------------------------------ rationals

Abs(x) == IF x < 0 THEN -x ELSE x

RECURSIVE GCD(_, _)
GCD(a, b) == IF b = 0 THEN a ELSE GCD(b, a % b)

Rat(n, d) ==
    LET g == GCD(Abs(n), Abs(d))
        s == IF d < 0 THEN -1 ELSE 1
    IN  <<(s * n) \div g, (s * d) \div g>>

RInt(n) == <<n, 1>>
RAdd(a, b) == Rat(a[1] * b[2] + b[1] * a[2], a[2] * b[2])
RSub(a, b) == Rat(a[1] * b[2] - b[1] * a[2], a[2] * b[2])
RMul(a, b) == Rat(a[1] * b[1], a[2] * b[2])
RDiv(a, b) == Rat(a[1] * b[2], a[2] * b[1])
RAbs(a) == <<Abs(a[1]), a[2]>>
RLeq(a, b) == a[1] * b[2] <= b[1] * a[2]
RLess(a, b) == a[1] * b[2] < b[1] * a[2]
RMax(a, b) == IF RLess(a, b) THEN b ELSE a

\* Python's round(): to the nearest integer, a tie going to the even one.
RoundHalfEven(a) ==
    LET fl == a[1] \div a[2]
        twice == 2 * (a[1] - fl * a[2])
    IN  IF twice < a[2] THEN fl
        ELSE IF twice > a[2] THEN fl + 1
        ELSE IF fl % 2 = 0 THEN fl ELSE fl + 1

\* numpy.isclose(a, b) for an integer b, with the default rtol = 1e-5 and
\* atol = 1e-8: |a - b| <= atol + rtol * |b|, in integers of TLC's width.
IsClose(a, b) ==
    LET diff == Abs(a[1] - b * a[2])
        rhs == a[2] * (1 + 1000 * Abs(b))
    IN  diff = 0 \/ (rhs >= 100000000 /\ diff <= rhs \div 100000000)

RECURSIVE SumSeq(_)
SumSeq(s) == IF s = <<>> THEN RInt(0) ELSE RAdd(Head(s), SumSeq(Tail(s)))

RECURSIVE MaxSeq(_)
MaxSeq(s) == IF Len(s) = 1 THEN s[1] ELSE RMax(Head(s), MaxSeq(Tail(s)))

RECURSIVE Flatten(_)
Flatten(rows) == IF rows = <<>> THEN <<>> ELSE Head(rows) \o Flatten(Tail(rows))

\* ------------------------------------------------------------ binary64

\* A float64 that is not a rational of the kind above is <<sign, m, e>>: m is the
\* 53-bit significand (<<>> for zero) and the value is (-1)^sign * m * 2^e.  Only
\* values of one sign are added, as numpy.mean does over a block of non-negative
\* cells.  A natural number of any size is its sequence of digits in base
\* 2^LimbBits, most significant first, without leading zeros.
Precision == 53
LimbBits == 14

RECURSIVE Pow2(_)
Pow2(k) == IF k = 0 THEN 1 ELSE 2 * Pow2(k - 1)
Base == Pow2(LimbBits)

RECURSIVE BigStrip(_)
BigStrip(x) == IF x = <<>> \/ x[1] # 0 THEN x ELSE BigStrip(Tail(x))

BigPad(x, n) == [i \in 1..(n - Len(x)) |-> 0] \o x

\* x + y + c for two digit sequences of equal length.
RECURSIVE BigAddRec(_, _, _)
BigAddRec(x, y, c) ==
    IF x = <<>> THEN <<c>>
    ELSE LET n == Len(x)
             t == x[n] + y[n] + c
         IN  BigAddRec(SubSeq(x, 1, n - 1), SubSeq(y, 1, n - 1), t \div Base)
                 \o <<t % Base>>

BigAdd(x, y) ==
    LET n == IF Len(x) > Len(y) THEN Len(x) ELSE Len(y)
    IN  BigStrip(BigAddRec(BigPad(x, n), BigPad(y, n), 0))

\* x * c + carry for a factor c < Base.
RECURSIVE BigMulRec(_, _, _)
BigMulRec(x, c, carry) ==
    IF x = <<>> THEN <<carry>>
    ELSE LET n == Len(x)
             t == x[n] * c + carry
         IN  BigMulRec(SubSeq(x, 1, n - 1), c, t \div Base) \o <<t % Base>>

BigShl(x, k) ==
    IF x = <<>> THEN x
    ELSE BigStrip(BigMulRec(x, Pow2(k % LimbBits), 0)) \o [i \in 1..(k \div LimbBits) |-> 0]

\* Long division by a divisor r <= Base: the quotient and the remainder.
RECURSIVE BigDivRec(_, _, _, _, _)
BigDivRec(x, r, i, rem, q) ==
    IF i > Len(x) THEN [q |-> BigStrip(q), rem |-> rem]
    ELSE LET t == rem * Base + x[i]
         IN  BigDivRec(x, r, i + 1, t % r, Append(q, t \div r))

BigDiv(x, r) == BigDivRec(x, r, 1, 0, <<>>)

\* x shifted right by k bits, and whether a non-zero bit was shifted out.
BigShr(x, k) ==
    LET nl == k \div LimbBits
        hi == SubSeq(x, 1, Len(x) - nl)
        lo == SubSeq(x, Len(x) - nl + 1, Len(x))
        d == BigDiv(hi, Pow2(k % LimbBits))
    IN  [q |-> d.q, lost |-> d.rem # 0 \/ \E i \in 1..Len(lo) : lo[i] # 0]

RECURSIVE SmallBitLen(_)
SmallBitLen(n) == IF n = 0 THEN 0 ELSE 1 + SmallBitLen(n \div 2)
BitLen(x) == IF x = <<>> THEN 0 ELSE LimbBits * (Len(x) - 1) + SmallBitLen(x[1])

\* Round-to-nearest, ties-to-even, of x * 2^e (plus a non-zero tail below the
\* last bit when sticky) to a float64.
RoundNearestEven(sign, x, e, sticky) ==
    LET len == BitLen(x) IN
    IF len = 0 THEN <<0, <<>>, 0>>
    ELSE IF len <= Precision
    THEN <<sign, BigShl(x, Precision - len), e - (Precision - len)>>
    ELSE LET d == len - Precision
             s == BigShr(x, d - 1)
             h == BigDiv(s.q, 2)
             odd == h.q[Len(h.q)] % 2 = 1
             up == h.rem = 1 /\ (sticky \/ s.lost \/ odd)
             m == IF up THEN BigAdd(h.q, <<1>>) ELSE h.q
         IN  IF BitLen(m) > Precision THEN <<sign, BigDiv(m, 2).q, e + d + 1>>
             ELSE <<sign, m, e + d>>

FZero == <<0, <<>>, 0>>
FInt(n) == RoundNearestEven(0, BigStrip(<<n>>), 0, FALSE)

\* The float64 with the given significand, in 14 hexadecimal digits, times 2^e.
HexWord(h) ==
    (((((h[1] * 16 + h[2]) * 16 + h[3]) * 16 + h[4]) * 16 + h[5]) * 16 + h[6]) * 16 + h[7]
FHex(hex, e) ==
    LET hi == HexWord(SubSeq(hex, 1, 7))
        lo == HexWord(SubSeq(hex, 8, 14))
    IN  RoundNearestEven(0, BigStrip(<<hi \div Base, hi % Base, lo \div Base, lo % Base>>),
                         e, FALSE)

IsF64(a) == Len(a) = 3

\* a + b for two float64 of the same sign.
FAdd(a, b) ==
    IF a[2] = <<>> THEN b
    ELSE IF b[2] = <<>> THEN a
    ELSE LET e == IF a[3] < b[3] THEN a[3] ELSE b[3]
         IN  RoundNearestEven(a[1], BigAdd(BigShl(a[2], a[3] - e), BigShl(b[2], b[3] - e)),
                              e, FALSE)

\* a / r for a float64 a and a count r, 1 <= r < 2^GuardBits / 4 (numpy.true_divide
\* by the cell count).
GuardBits == 12
FDivInt(a, r) ==
    LET qr == BigDiv(BigShl(a[2], GuardBits), r)
    IN  RoundNearestEven(a[1], qr.q, a[3] - GuardBits, qr.rem # 0)

\* numpy.add.reduce over a block of fewer than 8 cells: from 0, left to right.
RECURSIVE FSumTo(_, _)
FSumTo(s, k) == IF k = 0 THEN FZero ELSE FAdd(FSumTo(s, k - 1), s[k])
FSum(s) == FSumTo(s, Len(s))

\* ------------------------------------------------------------ arrays

Arr1(v) == [rank |-> 1, shape |-> <<Len(v)>>, v |-> v]
Arr2(ny, nx, rows) == [rank |-> 2, shape |-> <<ny, nx>>, v |-> rows]
Arr3(shape) == [rank |-> 3, shape |-> shape, v |-> <<>>]

Cells(a) == IF a.rank = 1 THEN a.v ELSE Flatten(a.v)

Raise(e) == [ok |-> FALSE, exc |-> e]
Return(x) == [ok |-> TRUE, val |-> x]

\* ------------------------------------------------------------ coarsen_grid

\* Mean dividing by one more than the number of cells.
MeanBiased(block) ==
    IF IsF64(block[1]) THEN FDivInt(FSum(block), Len(block) + 1)
    ELSE RDiv(SumSeq(block), RInt(Len(block) + 1))

\* numpy.mean of a non-empty block: sum / count, in float64 for float64 cells.
Mean(block) ==
    IF IsF64(block[1]) THEN FDivInt(FSum(block), Len(block))
    ELSE RDiv(SumSeq(block), RInt(Len(block)))

\* Block2D taking the first row of the block ry times.
Block2DFirstRow(rows, j, i, ry, rx) ==
    Flatten([jj \in 1..ry |-> SubSeq(rows[j * ry + 1], i * rx + 1, (i + 1) * rx)])

\* var_fine[j*ry:(j+1)*ry, i*rx:(i+1)*rx] with 0-based j, i, flattened.
Block2D(rows, j, i, ry, rx) ==
    Flatten([jj \in 1..ry |-> SubSeq(rows[j * ry + jj], i * rx + 1, (i + 1) * rx)])

\* AxisCheck without the divisibility test.
AxisCheckLoose(n_f, r) == IF r = 0 THEN "ZeroDivisionError" ELSE "ok"

\* The size checks of one axis, in the order the code makes them: n_f % r
\* (ZeroDivisionError when r = 0), then numpy.zeros(n_f // r).
AxisCheck(n_f, r) ==
    IF r = 0 THEN "ZeroDivisionError"
    ELSE IF n_f % Abs(r) # 0 THEN "ValueError"
    ELSE "ok"

Coarsen1D(var_fine, refinement_ratios) ==
    LET nx_f == var_fine.shape[1]
        rx0 == refinement_ratios[1]
    IN  IF ~IsClose(rx0, RoundHalfEven(rx0)) THEN Raise("ValueError")
        ELSE LET rx == RoundHalfEven(rx0) IN
             IF AxisCheck(nx_f, rx) # "ok" THEN Raise(AxisCheck(nx_f, rx))
             ELSE IF rx < 0 /\ nx_f > 0 THEN Raise("ValueError")
             ELSE LET nx_c == IF nx_f = 0 THEN 0 ELSE nx_f \div rx IN
                  Return(Arr1([i \in 1..nx_c |->
                      Mean(SubSeq(var_fine.v, (i - 1) * rx + 1, i * rx))]))

Coarsen2D(var_fine, refinement_ratios) ==
    LET ny_f == var_fine.shape[1]
        nx_f == var_fine.shape[2]
        ry0 == refinement_ratios[1]
        rx0 == refinement_ratios[2]
    IN  IF ~IsClose(rx0, RoundHalfEven(rx0))
           \/ ~IsClose(ry0, RoundHalfEven(ry0))
        THEN Raise("ValueError")
        ELSE LET rx == RoundHalfEven(rx0)
                 ry == RoundHalfEven(ry0)
             IN  IF AxisCheck(ny_f, ry) # "ok" THEN Raise(AxisCheck(ny_f, ry))
                 ELSE IF AxisCheck(nx_f, rx) # "ok" THEN Raise(AxisCheck(nx_f, rx))
                 ELSE IF (ry < 0 /\ ny_f > 0) \/ (rx < 0 /\ nx_f > 0)
                 THEN Raise("ValueError")
                 ELSE LET ny_c == IF ny_f = 0 THEN 0 ELSE ny_f \div ry
                          nx_c == IF nx_f = 0 THEN 0 ELSE nx_f \div rx
                      IN  Return(Arr2(ny_c, nx_c,
                              [j \in 1..ny_c |-> [i \in 1..nx_c |->
                                  Mean(Block2D(var_fine.v, j - 1, i - 1, ry, rx))]]))

\* coarsen_grid handing an array of any other rank back unchanged.
coarsen_gridAnyRank(var_fine, refinement_ratios) ==
    IF var_fine.rank = 1 THEN Coarsen1D(var_fine, refinement_ratios)
    ELSE IF var_fine.rank = 2
         THEN IF Len(refinement_ratios) # 2 THEN Raise("ValueError")
              ELSE Coarsen2D(var_fine, refinement_ratios)
    ELSE Return(var_fine)

coarsen_grid(var_fine, refinement_ratios) ==
    IF var_fine.rank = 1 THEN Coarsen1D(var_fine, refinement_ratios)
    ELSE IF var_fine.rank = 2
         THEN IF Len(refinement_ratios) # 2 THEN Raise("ValueError")
              ELSE Coarsen2D(var_fine, refinement_ratios)
    ELSE Raise("ValueError")

\* ------------------------------------------------------------ compute_error

NaN == [k |-> "nan"]
\* The real number v^(1/root): root is 2 for the L2 norm and 1 otherwise.
Val(v, root) == [k |-> "val", v |-> v, root |-> root]

\* numpy broadcasting of two arrays of rank 1 or 2, seen as row matrices.
Rows(a) == IF a.rank = 1 THEN <<a.v>> ELSE a.v
Shape2(a) == IF a.rank = 1 THEN <<1, a.shape[1]>> ELSE a.shape
Broadcastable(a, b) ==
    \A d \in 1..2 : Shape2(a)[d] = Shape2(b)[d] \/ Shape2(a)[d] = 1 \/ Shape2(b)[d] = 1
BShape(a, b) ==
    [d \in 1..2 |-> IF Shape2(a)[d] = 1 THEN Shape2(b)[d] ELSE Shape2(a)[d]]
At(a, j, i) ==
    Rows(a)[IF Shape2(a)[1] = 1 THEN 1 ELSE j][IF Shape2(a)[2] = 1 THEN 1 ELSE i]

\* diff = var_a - var_b, flattened.
Diff(var_a, var_b) ==
    Flatten([j \in 1..BShape(var_a, var_b)[1] |->
             [i \in 1..BShape(var_a, var_b)[2] |->
                 RSub(At(var_a, j, i), At(var_b, j, i))]])

compute_error(var_a, var_b, cell_volume, norm) ==
    IF ~Broadcastable(var_a, var_b) THEN Raise("ValueError")
    ELSE LET diff == Diff(var_a, var_b) IN
         IF norm = "1"
         THEN Return(Val(RMul(SumSeq([i \in 1..Len(diff) |-> RAbs(diff[i])]),
                              cell_volume), 1))
         ELSE IF norm = "2"
         THEN Return(Val(RMul(SumSeq([i \in 1..Len(diff) |-> RMul(diff[i], diff[i])]),
                              cell_volume), 2))
         ELSE IF norm = "inf"
         THEN IF diff = <<>> THEN Raise("ValueError")
              ELSE Return(Val(MaxSeq([i \in 1..Len(diff) |-> RAbs(diff[i])]), 1))
         ELSE Raise("ValueError")

\* ------------------------------------------------------------ bounds and inputs

MaxSamples == 3
MaxN == 4
MaxT == 2

\* Dimension-name heuristics of the configuration module.
TIME_DIMENSION_NAMES == <<"time", "t", "iter">>
X_DIMENSION_NAMES == {"x", "lon", "longitude"}
Y_DIMENSION_NAMES == {"y", "lat", "latitude"}
EXPRESSION_OPERATORS == {"+", "-", "*", "/", "(", ")"}

\* str.lower() on the dimension names that occur.
Lower(d) == IF d = "X" THEN "x" ELSE d

\* The characters of the field keys that occur (str has no characters in TLA+).
Chars(key) == IF key = "u-h" THEN {"u", "-", "h"} ELSE {key}

\* Python's None where the other values are strings; an optional value of another
\* type is Nothing or Some(x).
None == "None"
Nothing == <<>>
Some(x) == <<x>>
The(opt) == opt[1]

Norms == {"1", "2", "inf", "l2"}
TimeArgs == {Nothing} \cup {Some(k) : k \in -1..MaxT}
VarLists == {Nothing} \cup {Some(l) : l \in {<<"h">>, <<"q">>, <<"q", "u-h">>}}
Spacings == {<<1, 1>>, <<1, 2>>}

\* A dataset: its dimensions with sizes, its declared unlimited dimensions and its
\* data variables.  "h" is time-dependent when the file has a time axis, "u" is
\* static.
Dataset(sizes, unlimited) ==
    [sizes |-> sizes, unlimited_dims |-> unlimited, data_vars |-> <<"h", "u">>]

\* A file whose only variable "w" has a level dimension besides time, y and x.
Levels == 2
LevelsFile ==
    [sizes |-> ("time" :> 1) @@ ("z" :> Levels) @@ ("y" :> 2) @@ ("x" :> 2),
     unlimited_dims |-> <<"time">>, data_vars |-> <<"w">>]

RefFiles ==
    {Dataset("x" :> nx, <<>>) : nx \in 1..MaxN}
    \cup {Dataset(("time" :> nt) @@ ("x" :> 2), <<"time">>) : nt \in 0..(MaxT - 1)}
    \cup {Dataset(("time" :> MaxT) @@ ("x" :> MaxN), <<"time">>)}
    \cup {Dataset(("t" :> MaxT) @@ ("X" :> 2), <<>>)}
    \cup {Dataset(("y" :> 2) @@ ("x" :> 2), <<>>)}
    \cup {Dataset(("time" :> MaxT) @@ ("y" :> 2) @@ ("x" :> MaxN), <<"time">>)}
    \cup {Dataset(("time" :> MaxT) @@ ("y" :> MaxN), <<>>), Dataset("z" :> MaxN, <<>>)}
    \cup {LevelsFile}

Dims(ds) == DOMAIN ds.sizes

\* ------------------------------------------------------------ datasets

\* Lines 43-54: the declared unlimited dimension, else the first conventional name.
TimeNameFallback(ds) ==
    LET hits == {k \in 1..Len(TIME_DIMENSION_NAMES) : TIME_DIMENSION_NAMES[k] \in Dims(ds)}
    IN  IF hits = {} THEN None
        ELSE TIME_DIMENSION_NAMES[CHOOSE k \in hits : \A m \in hits : k <= m]

DetectTimeDim(ds) ==
    IF ds.unlimited_dims # <<>> THEN ds.unlimited_dims[1] ELSE TimeNameFallback(ds)

\* Lines 56-65.
DetectXDim(ds, td) ==
    LET c == {d \in Dims(ds) \ {td} : d \in X_DIMENSION_NAMES \/ Lower(d) \in X_DIMENSION_NAMES}
    IN  IF c = {} THEN None ELSE CHOOSE d \in c : TRUE

DetectYDim(ds, td) ==
    LET c == {d \in Dims(ds) \ {td} :
                 /\ ~(d \in X_DIMENSION_NAMES \/ Lower(d) \in X_DIMENSION_NAMES)
                 /\ (d \in Y_DIMENSION_NAMES \/ Lower(d) \in Y_DIMENSION_NAMES)}
    IN  IF c = {} THEN None ELSE CHOOSE d \in c : TRUE

\* Line 203: any(op in var_expr for op in EXPRESSION_OPERATORS).
IsExpression(var_expr) == Chars(var_expr) \cap EXPRESSION_OPERATORS # {}

\* Whether the variable (or expression result) carries the time dimension.
HasTime(key, td) == td # None /\ key # "u"

\* The spatial shape of the fields of a dataset.
FieldShape(ds, xd, yd) ==
    IF yd = None THEN <<ds.sizes[xd]>> ELSE <<ds.sizes[yd], ds.sizes[xd]>>

Filled(shape, f(_)) ==
    IF Len(shape) = 1
    THEN Arr1([i \in 1..shape[1] |-> f(i - 1)])
    ELSE Arr2(shape[1], shape[2],
              [j \in 1..shape[1] |-> [i \in 1..shape[2] |-> f((j - 1) * shape[2] + (i - 1))]])

\* Reference file contents: h[t] is the ramp k + t over the flattened cell index k,
\* u is 3 everywhere, and the expression u-h is their difference; w keeps its
\* level dimension after the time slice.
RefH(t, k) == RInt(k + t)
RefU(k) == RInt(3)
RefValues(key, shape, t) ==
    IF key = "w" THEN Arr3(<<Levels>> \o shape)
    ELSE IF key = "h" THEN Filled(shape, LAMBDA k : RefH(t, k))
    ELSE IF key = "u" THEN Filled(shape, LAMBDA k : RefU(k))
    ELSE Filled(shape, LAMBDA k : RSub(RefU(k), RefH(t, k)))

\* Sample file contents read for one (sample, field) pair: whether the name (or
\* every name of the expression) is in the file, the length of the file's time
\* axis, and the value c that fills the field.
SampleReads ==
    {[present |-> FALSE, nt |-> MaxT, c |-> 3]}
    \cup [present : {TRUE}, nt : {1, MaxT}, c : {3}]

\* ------------------------------------------------------------ orders

\* The exponent k of a positive rational 2^k, Nothing for any other rational.
RECURSIVE Log2Int(_)
Log2Int(n) == IF n = 1 THEN 0 ELSE IF n % 2 # 0 THEN -1 ELSE
                 (IF Log2Int(n \div 2) < 0 THEN -1 ELSE Log2Int(n \div 2) + 1)

Log2(x) ==
    IF x[2] = 1 /\ Log2Int(x[1]) >= 0 THEN Some(Log2Int(x[1]))
    ELSE IF x[1] = 1 /\ Log2Int(x[2]) >= 0 THEN Some(-Log2Int(x[2]))
    ELSE Nothing

Empty == [k |-> "empty"]
\* The text of f"{p:.3f}": thousandths for a finite p, the sign kept on a zero.
Num(milli, negzero) == [k |-> "num", milli |-> milli, negzero |-> negzero]
PosInf == [k |-> "inf"]
NegInf == [k |-> "-inf"]
NanText == [k |-> "nan"]
\* A finite p = ln(q^(1/root)) / ln(h) where q or h is no power of two.
LogText(q, h, root) == [k |-> "log", q |-> q, h |-> h, root |-> root]

Fmt3(p) == Num(RoundHalfEven(RMul(p, RInt(1000))), FALSE)

\* np.log(e_prev / e_cur) / np.log(h_ratio), formatted; e_prev = v_prev^(1/root)
\* and e_cur = v_cur^(1/root) are positive.
LogQuotient(v_prev, v_cur, root, h_ratio) ==
    LET q == RDiv(v_prev, v_cur)
        one == RInt(1)
    IN  IF h_ratio = one
        THEN IF q = one THEN NanText
             ELSE IF RLess(one, q) THEN PosInf ELSE NegInf
        ELSE IF q = one THEN Num(0, RLess(h_ratio, one))
        ELSE IF Log2(q) # Nothing /\ Log2(h_ratio) # Nothing
        THEN Fmt3(Rat(The(Log2(q)), The(Log2(h_ratio)) * root))
        ELSE LogText(q, h_ratio, root)

IsNan(e) == e.k = "nan"
Positive(e) == e.k = "val" /\ e.v[1] > 0

\* HRatio dividing the earlier sample's size by the later one's.
HRatioInverted(grid_type, prev, cur) ==
    IF grid_type = "1D" THEN Rat(prev.n, cur.n)
    ELSE RDiv(RAdd(Rat(prev.nx, cur.nx), Rat(prev.ny, cur.ny)), RInt(2))

\* Lines 292-299.
HRatio(grid_type, prev, cur) ==
    IF grid_type = "1D" THEN Rat(cur.n, prev.n)
    ELSE RDiv(RAdd(Rat(cur.nx, prev.nx), Rat(cur.ny, prev.ny)), RInt(2))

\* Lines 289-305: the order entry of one transition.
OrderEntry(e_prev, e_cur, h_ratio) ==
    IF IsNan(e_prev) \/ IsNan(e_cur) THEN Empty
    ELSE IF Positive(e_cur) /\ Positive(e_prev)
         THEN LogQuotient(e_prev.v, e_cur.v, e_cur.root, h_ratio)
         ELSE Empty

\* OrdersOf leaving every order of a variable empty once one of its errors is NaN.
OrdersOfPoisoned(errs, info, grid_type) ==
    <<Empty>> \o [i \in 1..(Len(info) - 1) |->
                    IF \E k \in 1..Len(errs) : IsNan(errs[k]) THEN Empty
                    ELSE OrderEntry(errs[i], errs[i + 1],
                                    HRatio(grid_type, info[i], info[i + 1]))]

\* OrdersOf without the empty first entry of line 307.
OrdersOfNoFirst(errs, info, grid_type) ==
    [i \in 1..(Len(info) - 1) |->
        OrderEntry(errs[i], errs[i + 1], HRatio(grid_type, info[i], info[i + 1]))]

\* Lines 287-307 for one variable.
OrdersOf(errs, info, grid_type) ==
    <<Empty>> \o [i \in 1..(Len(info) - 1) |->
                    OrderEntry(errs[i], errs[i + 1], HRatio(grid_type, info[i], info[i + 1]))]

\* ------------------------------------------------------------ validation

\* Validate1D accepting a sample as fine as the reference (< for <=).
Validate1DAcceptsEqual(n_ref, n_sample) ==
    IF n_ref < n_sample THEN "not_coarser"
    ELSE IF n_sample = 0 THEN "ZeroDivisionError"
    ELSE IF n_ref % n_sample # 0 THEN "not_divisible"
    ELSE "ok"

\* Lines 135-147: the checks of one sample on a 1-D grid.
Validate1D(n_ref, n_sample) ==
    IF n_ref <= n_sample THEN "not_coarser"
    ELSE IF n_sample = 0 THEN "ZeroDivisionError"
    ELSE IF n_ref % n_sample # 0 THEN "not_divisible"
    ELSE "ok"

\* Validate2D rejecting a sample only when both axes are not coarser (and for or).
Validate2DBothAxes(ny_ref, nx_ref, ny_sample, nx_sample) ==
    IF ny_ref <= ny_sample /\ nx_ref <= nx_sample THEN "not_coarser"
    ELSE IF ny_sample = 0 THEN "ZeroDivisionError"
    ELSE IF ny_ref % ny_sample # 0 THEN "not_divisible"
    ELSE IF nx_sample = 0 THEN "ZeroDivisionError"
    ELSE IF nx_ref % nx_sample # 0 THEN "not_divisible"
    ELSE "ok"

\* Lines 164-176: the checks of one sample on a 2-D grid.
Validate2D(ny_ref, nx_ref, ny_sample, nx_sample) ==
    IF ny_ref <= ny_sample \/ nx_ref <= nx_sample THEN "not_coarser"
    ELSE IF ny_sample = 0 THEN "ZeroDivisionError"
    ELSE IF ny_ref % ny_sample # 0 THEN "not_divisible"
    ELSE IF nx_sample = 0 THEN "ZeroDivisionError"
    ELSE IF nx_ref % nx_sample # 0 THEN "not_divisible"
    ELSE "ok"

\* Lines 155, 180-181: the spacing of a coordinate s * arange(n).
Spacing(n, s) == IF n > 1 THEN RAbs(s) ELSE RInt(1)

\* Lines 149-156.
Info1D(i, n_ref, n_sample, s) ==
    [file |-> i, ds |-> i, n |-> n_sample,
     refinement |-> <<RInt(n_ref \div n_sample)>>, dx |-> Spacing(n_sample, s)]

\* Lines 178-191.
Info2D(i, ny_ref, nx_ref, ny_sample, nx_sample, s) ==
    [file |-> i, ds |-> i, ny |-> ny_sample, nx |-> nx_sample,
     refinement |-> <<RInt(ny_ref \div ny_sample), RInt(nx_ref \div nx_sample)>>,
     dx |-> Spacing(nx_sample, s), dy |-> Spacing(ny_sample, s)]

\* ------------------------------------------------------------ compute_table

VARIABLES
    pc,           \* position in compute_table
    exit,         \* how the call ended: None while it runs
    nsamples,     \* len(sample_files)
    norm_error,
    ds_ref,       \* the reference dataset, Nothing before it is opened
    ref_handle,   \* "unopened", "open" or "closed"
    handles,      \* one entry per sample dataset opened: "open" or "closed"
    time_dim, x_dim, y_dim, grid_type,
    time_index,   \* the argument, rebound by lines 90-103
    variables,    \* the argument, rebound by lines 105-110
    sample_info,
    ref_keys,     \* the keys of ref_data in insertion order
    ref_data,
    errors,
    orders,
    table,        \* the printed table, Nothing when none was printed
    ref_reads,    \* how often each field was extracted from the reference
    ref_slices,   \* the time indices used to slice the reference
    sample_slices,\* the time indices used to slice samples
    err_calls,    \* the (sample, field) pairs compute_error was called for
    last_sizes,   \* the dimension sizes of the sample opened last
    last_reads,   \* what the sample loop read from the sample processed last
    call          \* a direct call of coarsen_grid: its arguments and what it gave

vars == <<pc, exit, nsamples, norm_error, ds_ref, ref_handle, handles, time_dim, x_dim, y_dim,
          grid_type, time_index, variables, sample_info, ref_keys, ref_data,
          errors, orders, table, ref_reads, ref_slices, sample_slices, err_calls,
          last_sizes, last_reads, call>>

setup == <<ds_ref, time_dim, x_dim, y_dim, grid_type, time_index, variables>>
loaded == <<ref_keys, ref_data, ref_reads, ref_slices>>
history == <<sample_slices, err_calls, last_reads>>

Init ==
    /\ pc = "start"
    /\ exit = None
    /\ nsamples \in 0..MaxSamples
    /\ norm_error \in Norms
    /\ ds_ref = Nothing
    /\ ref_handle = "unopened"
    /\ handles = <<>>
    /\ time_dim = None /\ x_dim = None /\ y_dim = None /\ grid_type = None
    /\ time_index \in TimeArgs
    /\ variables \in VarLists
    /\ sample_info = <<>>
    /\ ref_keys = <<>>
    /\ ref_data = <<>>
    /\ errors = <<>>
    /\ orders = <<>>
    /\ table = Nothing
    /\ ref_reads = <<>>
    /\ ref_slices = {}
    /\ sample_slices = {}
    /\ err_calls = {}
    /\ last_sizes = Nothing
    /\ last_reads = Nothing
    /\ call = Nothing

CloseAll(hs) == [i \in 1..Len(hs) |-> "closed"]
CloseLast(hs) == [hs EXCEPT ![Len(hs)] = "closed"]

\* ResolveTimeIndex defaulting to the first index instead of the last.
ResolveTimeIndexFirst(ds, td, ti) ==
    IF td = None THEN [exit |-> None, time_index |-> Nothing]
    ELSE IF ti = Nothing
         THEN IF ds.sizes[td] = 0
              THEN [exit |-> "raise:IndexError", time_index |-> Some(-1)]
              ELSE [exit |-> None, time_index |-> Some(0)]
         ELSE IF The(ti) >= ds.sizes[td] \/ The(ti) < 0
              THEN [exit |-> "abort:time_index", time_index |-> ti]
              ELSE [exit |-> None, time_index |-> ti]

\* ResolveTimeIndex letting a negative index through (Python's indexing from the end).
ResolveTimeIndexNegative(ds, td, ti) ==
    IF td = None THEN [exit |-> None, time_index |-> Nothing]
    ELSE IF ti = Nothing
         THEN IF ds.sizes[td] = 0
              THEN [exit |-> "raise:IndexError", time_index |-> Some(-1)]
              ELSE [exit |-> None, time_index |-> Some(ds.sizes[td] - 1)]
         ELSE IF The(ti) >= ds.sizes[td]
              THEN [exit |-> "abort:time_index", time_index |-> ti]
              ELSE [exit |-> None, time_index |-> ti]

\* Lines 90-103: the time index used, or how resolving it ends the call.
ResolveTimeIndex(ds, td, ti) ==
    IF td = None THEN [exit |-> None, time_index |-> Nothing]
    ELSE IF ti = Nothing
         THEN IF ds.sizes[td] = 0
              THEN [exit |-> "raise:IndexError", time_index |-> Some(-1)]
              ELSE [exit |-> None, time_index |-> Some(ds.sizes[td] - 1)]
         ELSE IF The(ti) >= ds.sizes[td] \/ The(ti) < 0
              THEN [exit |-> "abort:time_index", time_index |-> ti]
              ELSE [exit |-> None, time_index |-> ti]

\* Lines 32-113.
Start ==
    /\ pc = "start"
    /\ UNCHANGED <<call, nsamples, norm_error, handles, sample_info, loaded, errors, orders,
                   table, history, last_sizes>>
    /\ \E exists \in BOOLEAN, ds \in RefFiles :
        IF ~exists
        THEN /\ exit' = "raise:FileNotFoundError"
             /\ pc' = "done"
             /\ UNCHANGED <<ref_handle, setup>>
        ELSE LET td == DetectTimeDim(ds)
                 xd == DetectXDim(ds, td)
                 yd == DetectYDim(ds, td)
                 rt == ResolveTimeIndex(ds, td, time_index)
             IN  /\ ds_ref' = Some(ds)
                 /\ time_dim' = td
                 /\ x_dim' = xd
                 /\ y_dim' = yd
                 /\ IF xd = None
                    THEN /\ exit' = "abort:no_spatial"
                         /\ pc' = "done"
                         /\ ref_handle' = "closed"
                         /\ UNCHANGED <<grid_type, time_index, variables>>
                    ELSE /\ grid_type' = IF yd = None THEN "1D" ELSE "2D"
                         /\ time_index' = rt.time_index
                         /\ IF rt.exit # None
                            THEN /\ exit' = rt.exit
                                 /\ pc' = "done"
                                 /\ ref_handle' = IF rt.exit = "abort:time_index"
                                                  THEN "closed" ELSE "open"
                                 /\ UNCHANGED variables
                            ELSE /\ exit' = None
                                 /\ ref_handle' = "open"
                                 /\ variables' = IF variables = Nothing
                                                 THEN Some(ds.data_vars)
                                                 ELSE variables
                                 /\ pc' = IF nsamples = 0 THEN "load" ELSE "validate"

\* The dimension sizes a sample file can have: every spatial dimension of the
\* reference with a size, or one of them missing.
SampleSizes(xd, yd) ==
    IF yd = None
    THEN {xd :> n : n \in 0..MaxN} \cup {"z" :> MaxN}
    ELSE {(yd :> ny) @@ (xd :> nx) : ny \in 0..MaxN, nx \in 0..MaxN}
         \cup {xd :> MaxN, yd :> MaxN}

\* Lines 131-192: the verdict on one opened sample.
Verdict(sizes) ==
    IF x_dim \notin DOMAIN sizes \/ (y_dim # None /\ y_dim \notin DOMAIN sizes)
    THEN "missing_dim"
    ELSE IF grid_type = "1D"
    THEN Validate1D(The(ds_ref).sizes[x_dim], sizes[x_dim])
    ELSE Validate2D(The(ds_ref).sizes[y_dim], The(ds_ref).sizes[x_dim],
                    sizes[y_dim], sizes[x_dim])

\* AfterVerdict skipping a sample that fails instead of ending the call.
AfterVerdictSkips(v, i) == IF i = nsamples THEN "load" ELSE "validate"

\* AfterVerdict going on to the next sample when a dimension is missing.
AfterVerdictSkipsMissing(v, i) ==
    IF v \in {"ok", "missing_dim"} THEN (IF i = nsamples THEN "load" ELSE "validate")
    ELSE "done"

\* Where the validation loop goes after the verdict on sample i.
AfterVerdict(v, i) ==
    IF v = "ok" THEN (IF i = nsamples THEN "load" ELSE "validate") ELSE "done"

\* Lines 119-192: one iteration of the validation loop.
ValidateSample ==
    /\ pc = "validate"
    /\ UNCHANGED <<call, nsamples, norm_error, setup, loaded, errors, orders, table, history>>
    /\ \E exists \in BOOLEAN, sizes \in SampleSizes(x_dim, y_dim), s \in Spacings :
        LET i == Len(handles) + 1
            v == Verdict(sizes)
        IN  IF ~exists
            THEN /\ exit' = "raise:FileNotFoundError"
                 /\ pc' = "done"
                 /\ UNCHANGED <<ref_handle, handles, sample_info, last_sizes>>
            ELSE /\ last_sizes' = Some(sizes)
                 /\ pc' = AfterVerdict(v, i)
                 /\ IF v = "ok"
                    THEN /\ handles' = Append(handles, "open")
                         /\ sample_info' = Append(sample_info,
                                IF grid_type = "1D"
                                THEN Info1D(i, The(ds_ref).sizes[x_dim], sizes[x_dim], s)
                                ELSE Info2D(i, The(ds_ref).sizes[y_dim],
                                            The(ds_ref).sizes[x_dim],
                                            sizes[y_dim], sizes[x_dim], s))
                         /\ UNCHANGED <<exit, ref_handle>>
                    ELSE IF v = "ZeroDivisionError"
                    THEN /\ handles' = Append(handles, "open")
                         /\ exit' = "raise:ZeroDivisionError"
                         /\ UNCHANGED <<ref_handle, sample_info>>
                    ELSE /\ handles' = Append(handles, "closed")
                         /\ ref_handle' = "closed"
                         /\ exit' = "abort:" \o v
                         /\ UNCHANGED sample_info

Range(f) == {f[i] : i \in DOMAIN f}

\* The names an expression refers to.
Names(key) == Chars(key) \ EXPRESSION_OPERATORS

\* Resolves taking every key for a variable of the dataset.
ResolvesAlways(key, data_vars) == TRUE

\* Lines 203-212: whether the key resolves in a dataset holding data_vars.
Resolves(key, data_vars) ==
    IF IsExpression(key) THEN Names(key) \subseteq Range(data_vars)
    ELSE key \in Range(data_vars)

\* Lines 201-225: the loop over the requested variables, from the k-th on.
RECURSIVE LoadFrom(_, _)
LoadFrom(k, acc) ==
    IF k > Len(The(variables)) THEN acc
    ELSE LET key == The(variables)[k]
             ds == The(ds_ref)
             sliced == HasTime(key, time_dim)
             data == RefValues(key, FieldShape(ds, x_dim, y_dim),
                               IF sliced THEN The(time_index) ELSE 0)
         IN  IF ~Resolves(key, ds.data_vars) THEN LoadFrom(k + 1, acc)
             ELSE LoadFrom(k + 1,
                    [keys |-> IF key \in Range(acc.keys) THEN acc.keys
                              ELSE Append(acc.keys, key),
                     data |-> (key :> data) @@ acc.data,
                     reads |-> (key :> (IF key \in DOMAIN acc.reads
                                        THEN acc.reads[key] + 1 ELSE 1)) @@ acc.reads,
                     slices |-> IF sliced THEN acc.slices \cup {The(time_index)}
                                ELSE acc.slices])

\* Lines 197-238.
LoadReference ==
    /\ pc = "load"
    /\ UNCHANGED <<call, nsamples, norm_error, setup, sample_info, orders, table, history,
                   last_sizes>>
    /\ LET got == LoadFrom(1, [keys |-> <<>>, data |-> <<>>, reads |-> <<>>, slices |-> {}])
       IN  /\ ref_keys' = got.keys
           /\ ref_data' = got.data
           /\ ref_reads' = got.reads
           /\ ref_slices' = got.slices
           /\ IF got.keys = <<>>
              THEN /\ handles' = CloseAll(handles)
                   /\ ref_handle' = "closed"
                   /\ exit' = "abort:no_variables"
                   /\ pc' = "done"
                   /\ UNCHANGED errors
              ELSE /\ errors' = [key \in Range(got.keys) |-> <<>>]
                   /\ pc' = IF sample_info = <<>> THEN "orders" ELSE "errors"
                   /\ UNCHANGED <<exit, ref_handle, handles>>

\* The sample loop index of lines 240-279 (1-based): the next sample to process.
NextSample == Len(errors[ref_keys[1]]) + 1

SampleShape(info) == IF grid_type = "1D" THEN <<info.n>> ELSE <<info.ny, info.nx>>

\* Lines 268-271.
CellVolume(info) == IF grid_type = "1D" THEN info.dx ELSE RMul(info.dx, info.dy)

\* PairError slicing a sample whose time axis is too short at its last index.
PairErrorClamped(key, info, rd) ==
    LET sliced == HasTime(key, time_dim)
        failed == [err |-> NaN, slice |-> Nothing, called |-> FALSE]
    IN  IF ~rd.present THEN failed
        ELSE LET data == Filled(SampleShape(info), LAMBDA k : RInt(rd.c))
                 proj == coarsen_grid(ref_data[key], info.refinement)
                 slice == IF sliced THEN time_index ELSE Nothing
             IN  IF ~proj.ok THEN [failed EXCEPT !.slice = slice]
                 ELSE LET e == compute_error(data, proj.val, CellVolume(info),
                                             norm_error)
                      IN  [err |-> IF e.ok THEN e.val ELSE NaN,
                           slice |-> slice, called |-> TRUE]

\* Lines 245-279 for one (sample, field) pair, rd being what is read from the
\* sample file: the entry appended to errors[key], the time index the sample was
\* sliced at, and whether compute_error was called.
PairError(key, info, rd) ==
    LET sliced == HasTime(key, time_dim)
        failed == [err |-> NaN, slice |-> Nothing, called |-> FALSE]
    IN  IF ~rd.present THEN failed
        ELSE IF sliced /\ The(time_index) >= rd.nt THEN failed
        ELSE LET data == Filled(SampleShape(info), LAMBDA k : RInt(rd.c))
                 proj == coarsen_grid(ref_data[key], info.refinement)
                 slice == IF sliced THEN time_index ELSE Nothing
             IN  IF ~proj.ok THEN [failed EXCEPT !.slice = slice]
                 ELSE LET e == compute_error(data, proj.val, CellVolume(info),
                                             norm_error)
                      IN  [err |-> IF e.ok THEN e.val ELSE NaN,
                           slice |-> slice, called |-> TRUE]

\* ComputeErrors extracting every reference field again for each sample.
ComputeErrorsRereading ==
    /\ pc = "errors"
    /\ UNCHANGED <<call, nsamples, norm_error, setup, ref_keys, ref_data, ref_slices,
                   sample_info, handles, ref_handle, exit, orders, table, last_sizes>>
    /\ ref_reads' = [key \in DOMAIN ref_reads |-> ref_reads[key] + 1]
    /\ \E reads \in [Range(ref_keys) -> SampleReads] :
        LET i == NextSample
            got == [key \in Range(ref_keys) |-> PairError(key, sample_info[i], reads[key])]
        IN  /\ last_reads' = Some(reads)
            /\ errors' = [key \in Range(ref_keys) |-> Append(errors[key], got[key].err)]
            /\ sample_slices' = sample_slices
                   \cup {The(got[key].slice) : key \in {k \in Range(ref_keys) :
                                                            got[k].slice # Nothing}}
            /\ err_calls' = err_calls
                   \cup {<<i, key>> : key \in {k \in Range(ref_keys) : got[k].called}}
            /\ pc' = IF i = Len(sample_info) THEN "orders" ELSE "errors"

\* Lines 240-279: one iteration of the sample loop, over every field.
ComputeErrors ==
    /\ pc = "errors"
    /\ UNCHANGED <<call, nsamples, norm_error, setup, loaded, sample_info, handles,
                   ref_handle, exit, orders, table, last_sizes>>
    /\ \E reads \in [Range(ref_keys) -> SampleReads] :
        LET i == NextSample
            got == [key \in Range(ref_keys) |-> PairError(key, sample_info[i], reads[key])]
        IN  /\ last_reads' = Some(reads)
            /\ errors' = [key \in Range(ref_keys) |-> Append(errors[key], got[key].err)]
            /\ sample_slices' = sample_slices
                   \cup {The(got[key].slice) : key \in {k \in Range(ref_keys) :
                                                            got[k].slice # Nothing}}
            /\ err_calls' = err_calls
                   \cup {<<i, key>> : key \in {k \in Range(ref_keys) : got[k].called}}
            /\ pc' = IF i = Len(sample_info) THEN "orders" ELSE "errors"

\* Lines 285-307: the orders of every variable.
OrdersTable(errs, keys, info, gt) ==
    [key \in Range(keys) |-> OrdersOf(errs[key], info, gt)]

\* Lines 284-307.
ComputeOrders ==
    /\ pc = "orders"
    /\ UNCHANGED <<call, nsamples, norm_error, setup, loaded, sample_info, handles,
                   ref_handle, exit, errors, table, sample_slices, err_calls,
                   last_sizes>>
    /\ orders' = OrdersTable(errors, ref_keys, sample_info, grid_type)
    /\ last_reads' = Nothing
    /\ pc' = "print"

\* Lines 333-337: the two cells of one field in one row.
Cells2(e, o) == [error |-> IF IsNan(e) THEN [k |-> "N/A"] ELSE e, order |-> o]

\* Lines 326-339.
Row(i) ==
    [cells |-> SampleShape(sample_info[i]),
     cols |-> [c \in 1..Len(ref_keys) |->
                  Cells2(errors[ref_keys[c]][i], orders[ref_keys[c]][i])]]

\* Lines 309-346: the heading reads ds_ref[time_dim], a KeyError when time_dim
\* is None; the handles are closed after the last row.
PrintTable ==
    /\ pc = "print"
    /\ UNCHANGED <<call, nsamples, norm_error, setup, loaded, sample_info, errors, orders,
                   history, last_sizes>>
    /\ pc' = "done"
    /\ IF time_dim = None
       THEN /\ exit' = "raise:KeyError"
            /\ UNCHANGED <<table, handles, ref_handle>>
       ELSE /\ table' = Some([header |-> ref_keys,
                              rows |-> [i \in 1..Len(sample_info) |-> Row(i)]])
            /\ handles' = CloseAll(handles)
            /\ ref_handle' = "closed"
            /\ exit' = "return"

Next ==
    \/ Start
    \/ ValidateSample
    \/ LoadReference
    \/ ComputeErrors
    \/ ComputeOrders
    \/ PrintTable

Spec == Init /\ [][Next]_vars

\* ------------------------------------------------------------ coarsen_grid called directly

MaxFine == 4
MaxPair == 2

\* 0.1, 0.2 and 0.3 as float64.
Tenth == FHex(<<1, 9, 9, 9, 9, 9, 9, 9, 9, 9, 9, 9, 9, 10>>, -56)
Fifth == FHex(<<1, 9, 9, 9, 9, 9, 9, 9, 9, 9, 9, 9, 9, 10>>, -55)
ThreeTenths == FHex(<<1, 3, 3, 3, 3, 3, 3, 3, 3, 3, 3, 3, 3, 3>>, -54)
CoarsenValues == {Tenth, Fifth, ThreeTenths}

\* Fine arrays: every 1-D array of up to MaxFine cells over CoarsenValues, the 2-D
\* ramps 1, 2, 3, ... of every shape up to MaxFine x MaxFine, and arrays of rank 3.
Fine1D == {Arr1(v) : v \in UNION {[1..n -> CoarsenValues] : n \in 0..MaxFine}}
Ramp2D(ny, nx) ==
    Arr2(ny, nx, [j \in 1..ny |-> [i \in 1..nx |-> FInt((j - 1) * nx + i)]])
Fine2D == {Ramp2D(ny, nx) : ny \in 0..MaxFine, nx \in 0..MaxFine}
Fine3D == {Arr3(<<2, 2, 2>>), Arr3(<<1, MaxFine, 1>>)}

\* Ratios: the integers from -1 to MaxFine, 2.5 and 2.00001.
CoarsenRatios ==
    {RInt(r) : r \in -1..MaxFine} \cup {Rat(5, 2), Rat(200001, 100000)}

CoarsenCalls ==
    [var_fine : Fine1D, refinement_ratios : {<<r>> : r \in CoarsenRatios}]
    \cup [var_fine : Fine2D,
          refinement_ratios : {<<ry, rx>> : ry \in CoarsenRatios, rx \in CoarsenRatios}]
    \cup [var_fine : Fine3D,
          refinement_ratios : {<<RInt(1)>>, <<RInt(1), RInt(1)>>,
                               <<RInt(1), RInt(1), RInt(1)>>}]
    \cup [var_fine : {Ramp2D(2, 2)}, refinement_ratios : {<<RInt(1)>>}]
    \cup [var_fine : {Arr1(<<Tenth, Fifth>>)}, refinement_ratios : {<<RInt(2), RInt(1)>>}]

\* Pairs of 1-D arrays of the same length, for coarsening their sum.
PairCalls ==
    UNION {[a : {Arr1(v) : v \in [1..n -> CoarsenValues]},
            b : {Arr1(v) : v \in [1..n -> CoarsenValues]},
            refinement_ratios : {<<RInt(1)>>, <<RInt(2)>>}] : n \in 1..MaxPair}

\* A 1-D array coarsened by r1 and then by r2, and by r1 * r2 at once.
TwiceCalls ==
    [var_fine : Fine1D, r1 : {RInt(r) : r \in 1..MaxFine}, r2 : {RInt(r) : r \in 1..MaxFine}]

\* numpy's a + b on two 1-D float64 arrays of the same length.
ArrAdd(a, b) == Arr1([i \in 1..Len(a.v) |-> FAdd(a.v[i], b.v[i])])

\* compute_table at rest while coarsen_grid is called directly.
Idle ==
    /\ pc = "idle"
    /\ exit = None
    /\ nsamples = 0
    /\ norm_error = "2"
    /\ ds_ref = Nothing
    /\ ref_handle = "unopened"
    /\ handles = <<>>
    /\ time_dim = None /\ x_dim = None /\ y_dim = None /\ grid_type = None
    /\ time_index = Nothing
    /\ variables = Nothing
    /\ sample_info = <<>>
    /\ ref_keys = <<>>
    /\ ref_data = <<>>
    /\ errors = <<>>
    /\ orders = <<>>
    /\ table = Nothing
    /\ ref_reads = <<>>
    /\ ref_slices = {}
    /\ sample_slices = {}
    /\ err_calls = {}
    /\ last_sizes = Nothing
    /\ last_reads = Nothing

pipeline == <<pc, exit, nsamples, norm_error, ds_ref, ref_handle, handles, time_dim, x_dim,
              y_dim, grid_type, time_index, variables, sample_info, ref_keys, ref_data,
              errors, orders, table, ref_reads, ref_slices, sample_slices, err_calls,
              last_sizes, last_reads>>

InitCoarsen ==
    /\ Idle
    /\ \/ \E c \in CoarsenCalls :
             call = Some([fn |-> "coarsen_grid", args |-> c, out |-> Nothing])
       \/ \E c \in PairCalls :
             call = Some([fn |-> "coarsen_sum", args |-> c, out |-> Nothing])
       \/ \E c \in TwiceCalls :
             call = Some([fn |-> "coarsen_twice", args |-> c, out |-> Nothing])

\* coarsen_grid(var_fine, refinement_ratios).
CallCoarsenGrid ==
    /\ The(call).fn = "coarsen_grid"
    /\ The(call).out = Nothing
    /\ LET c == The(call).args
       IN  call' = Some([The(call) EXCEPT
                           !.out = Some(coarsen_grid(c.var_fine, c.refinement_ratios))])
    /\ UNCHANGED pipeline

\* coarsen_grid(a + b, r), coarsen_grid(a, r) and coarsen_grid(b, r).
CallCoarsenSum ==
    /\ The(call).fn = "coarsen_sum"
    /\ The(call).out = Nothing
    /\ LET c == The(call).args
       IN  call' = Some([The(call) EXCEPT
                           !.out = Some([sum |-> coarsen_grid(ArrAdd(c.a, c.b),
                                                              c.refinement_ratios),
                                         a |-> coarsen_grid(c.a, c.refinement_ratios),
                                         b |-> coarsen_grid(c.b, c.refinement_ratios)])])
    /\ UNCHANGED pipeline

\* coarsen_grid(coarsen_grid(a, (r1,)), (r2,)) and coarsen_grid(a, (r1 * r2,)).
CallCoarsenTwice ==
    /\ The(call).fn = "coarsen_twice"
    /\ The(call).out = Nothing
    /\ LET c == The(call).args
           first == coarsen_grid(c.var_fine, <<c.r1>>)
       IN  call' = Some([The(call) EXCEPT
                           !.out = Some([via |-> IF first.ok
                                                 THEN coarsen_grid(first.val, <<c.r2>>)
                                                 ELSE first,
                                         direct |-> coarsen_grid(c.var_fine,
                                                                 <<RMul(c.r1, c.r2)>>)])])
    /\ UNCHANGED pipeline

NextCoarsen == CallCoarsenGrid \/ CallCoarsenSum \/ CallCoarsenTwice

SpecCoarsen == InitCoarsen /\ [][NextCoarsen]_vars

\* ------------------------------------------------------------ compute_error called directly

MaxErr == 3

\* Cell values and cell volumes (a length, an area; 0 for coinciding nodes).
ErrorValues == {RInt(0), Rat(1, 10), RInt(-3)}
Volumes == {RInt(0), Rat(1, 2), RInt(2)}

\* Arrays: every 1-D array of up to MaxErr cells over ErrorValues and two 2-D arrays.
Err1D == {Arr1(v) : v \in UNION {[1..n -> ErrorValues] : n \in 0..MaxErr}}
Err2D == {Arr2(2, 2, <<<<RInt(1), Rat(1, 10)>>, <<RInt(-3), RInt(0)>>>>),
          Arr2(2, 2, <<<<RInt(1), RInt(1)>>, <<RInt(1), RInt(1)>>>>)}

\* compute_error(a, a, v, norm) for every array.
SelfCalls(arrays) ==
    {[var_a |-> a, var_b |-> a, cell_volume |-> v, norm |-> n] :
        a \in arrays, v \in Volumes, n \in Norms}

\* compute_error(a, b, v, norm) for arrays a and b.
ErrorCalls(as, bs) ==
    [var_a : as, var_b : bs, cell_volume : {RInt(2)}, norm : Norms]

Err1DShort == {a \in Err1D : a.shape[1] <= 2}

PendingError(calls) ==
    \E c \in calls : call = Some([fn |-> "compute_error", args |-> c, out |-> Nothing])

InitError ==
    /\ Idle
    /\ \/ PendingError(SelfCalls(Err1D))
       \/ PendingError(SelfCalls(Err2D))
       \/ PendingError(ErrorCalls(Err1DShort, Err1DShort))
       \/ PendingError(ErrorCalls(Err2D, Err2D))
       \/ PendingError(ErrorCalls(Err1DShort, Err2D))

\* compute_error(var_a, var_b, cell_volume, norm).
CallComputeError ==
    /\ The(call).fn = "compute_error"
    /\ The(call).out = Nothing
    /\ LET c == The(call).args
       IN  call' = Some([The(call) EXCEPT
                           !.out = Some(compute_error(c.var_a, c.var_b, c.cell_volume,
                                                      c.norm))])
    /\ UNCHANGED pipeline

NextError == CallComputeError

SpecError == InitError /\ [][NextError]_vars

\* ------------------------------------------------------------ the orders of one field

MaxOrd == 3

\* The loop of lines 287-307 for one field, given the errors of the field and the
\* grids of the samples: sizes 2, 4 and 8 against a reference of 16 cells per axis.
OrderSizes == {2, 4, 8}
RefSize == 16
OrderValues == {RInt(0), Rat(1, 10), Rat(4, 10)}
\* A series of errors under one norm: root 2 for "2" (each error is the square
\* root of its value), root 1 otherwise; NaN for a failed pair.
ErrorSeries(n) ==
    UNION {[1..n -> {NaN} \cup {Val(v, root) : v \in OrderValues}] : root \in {1, 2}}

Infos1D(n) ==
    {[i \in 1..n |-> Info1D(i, RefSize, ns[i], RInt(1))] : ns \in [1..n -> OrderSizes]}
Infos2D(n) ==
    {[i \in 1..n |-> Info2D(i, RefSize, RefSize, ns[i][1], ns[i][2], RInt(1))] :
        ns \in [1..n -> {4, 8} \X {4, 8}]}

PendingOrders(gt, infos, n) ==
    \E info \in infos, errs \in ErrorSeries(n) :
        call = Some([fn |-> "orders",
                     args |-> [grid_type |-> gt, sample_info |-> info, errors |-> errs],
                     out |-> Nothing])

InitOrders ==
    /\ Idle
    /\ \/ \E n \in 1..MaxOrd : PendingOrders("1D", Infos1D(n), n)
       \/ PendingOrders("2D", Infos2D(2), 2)

\* Lines 287-307 for one field.
CallOrders ==
    /\ The(call).fn = "orders"
    /\ The(call).out = Nothing
    /\ LET c == The(call).args
       IN  call' = Some([The(call) EXCEPT
                           !.out = Some(OrdersOf(c.errors, c.sample_info, c.grid_type))])
    /\ UNCHANGED pipeline

NextOrders == CallOrders

SpecOrders == InitOrders /\ [][NextOrders]_vars

\* ------------------------------------------------------------ error (two-file comparison)

\* Files without a time dimension: their dimensions, the spacing of their
\* coordinates (coordinate d is spacing * arange(size)), their variables (each on
\* every dimension) and the value that fills the variables.
InspectSizes == {"x" :> 2, "x" :> 3, "lon" :> 2, ("y" :> 2) @@ ("x" :> 2)}
InspectFiles ==
    [sizes : InspectSizes, spacing : {RInt(1), RInt(2)},
     data_vars : SUBSET {"h", "u"}, c : {0, 3}]

\* The array of a variable of file f.
InspectValues(f) ==
    Filled(IF "y" \in DOMAIN f.sizes THEN <<f.sizes["y"], f.sizes["x"]>>
           ELSE <<f.sizes[CHOOSE d \in DOMAIN f.sizes : TRUE]>>,
           LAMBDA k : RInt(f.c))

\* Lines 297-320 for these files: dx, or dx * dy.
InspectCellVolume(f) ==
    IF "y" \in DOMAIN f.sizes THEN RMul(RAbs(f.spacing), RAbs(f.spacing))
    ELSE RAbs(f.spacing)

\* The state of a call of error: its position, the two handles, how it ended.
InspectCall(f1, f2, norm) ==
    [fn |-> "error", args |-> [file1 |-> f1, file2 |-> f2, norm_error |-> norm],
     pc |-> "open", h1 |-> "unopened", h2 |-> "unopened", out |-> Nothing]

InitInspect ==
    /\ Idle
    /\ \E f1 \in InspectFiles, f2 \in InspectFiles, norm \in {"2", "inf"} :
          call = Some(InspectCall(f1, f2, norm))

InspectAt(p) == The(call).fn = "error" /\ The(call).pc = p
InspectEnd(c, how, results) ==
    [c EXCEPT !.pc = "done", !.out = Some([exit |-> how, results |-> results])]

\* Lines 204-205.
InspectOpen ==
    /\ InspectAt("open")
    /\ \E exists1 \in BOOLEAN, exists2 \in BOOLEAN :
          call' = Some(
              IF ~exists1 THEN InspectEnd(The(call), "raise:FileNotFoundError", <<>>)
              ELSE IF ~exists2
              THEN InspectEnd([The(call) EXCEPT !.h1 = "open"],
                              "raise:FileNotFoundError", <<>>)
              ELSE [The(call) EXCEPT !.h1 = "open", !.h2 = "open", !.pc = "names"])
    /\ UNCHANGED pipeline

\* Lines 210-220.
InspectNames ==
    /\ InspectAt("names")
    /\ LET c == The(call)
       IN  call' = Some(
               IF DOMAIN c.args.file1.sizes # DOMAIN c.args.file2.sizes
               THEN InspectEnd(c, "return:names", <<>>)
               ELSE [c EXCEPT !.pc = "sizes"])
    /\ UNCHANGED pipeline

\* Lines 222-233.
InspectSizesMatch ==
    /\ InspectAt("sizes")
    /\ LET c == The(call)
           dims_match == \A dim \in DOMAIN c.args.file1.sizes :
                             c.args.file1.sizes[dim] = c.args.file2.sizes[dim]
       IN  call' = Some(
               IF ~dims_match THEN InspectEnd(c, "return:sizes", <<>>)
               ELSE [c EXCEPT !.pc = "coords"])
    /\ UNCHANGED pipeline

\* Lines 235-246: numpy.allclose on coordinates of equal length that are equal
\* or differ by a whole spacing.
InspectCoords ==
    /\ InspectAt("coords")
    /\ LET c == The(call)
       IN  call' = Some(
               IF c.args.file1.spacing # c.args.file2.spacing
               THEN InspectEnd(c, "return:coords", <<>>)
               ELSE [c EXCEPT !.pc = "variables"])
    /\ UNCHANGED pipeline

\* Lines 248-264.
InspectVariables ==
    /\ InspectAt("variables")
    /\ LET c == The(call)
           common_vars == c.args.file1.data_vars \cap c.args.file2.data_vars
       IN  call' = Some(
               IF common_vars = {} THEN InspectEnd(c, "return:no_common", <<>>)
               ELSE [c EXCEPT !.pc = "compute"])
    /\ UNCHANGED pipeline

\* Lines 266-381: the error of every common variable, then both files closed.
InspectCompute ==
    /\ InspectAt("compute")
    /\ LET c == The(call)
           common_vars == c.args.file1.data_vars \cap c.args.file2.data_vars
           err == compute_error(InspectValues(c.args.file1), InspectValues(c.args.file2),
                                InspectCellVolume(c.args.file1), c.args.norm_error)
       IN  call' = Some(InspectEnd([c EXCEPT !.h1 = "closed", !.h2 = "closed"],
                                   "return", [var \in common_vars |-> err.val]))
    /\ UNCHANGED pipeline

NextInspect ==
    \/ InspectOpen
    \/ InspectNames
    \/ InspectSizesMatch
    \/ InspectCoords
    \/ InspectVariables
    \/ InspectCompute

SpecInspect == InitInspect /\ [][NextInspect]_vars

\* ------------------------------------------------------------ properties

Supported == {"1", "2", "inf"}
AllClosed == ref_handle # "open" /\ \A i \in DOMAIN handles : handles[i] = "closed"
\* A sample was opened and not accepted.
SampleRejected == Len(handles) > Len(sample_info)
\* The last sample opened was accepted.
LastAccepted == Len(handles) = Len(sample_info)
\* Lines 284-307 have run.
OrdersDone == DOMAIN orders # {}
SomeNaN == \E key \in DOMAIN errors : \E i \in DOMAIN errors[key] : IsNan(errors[key][i])

\* C1: however compute_table ends, every dataset handle it opened is closed.
C1_HandlesClosedAtExit == pc = "done" => AllClosed

\* C2: once a sample fails validation the call is over: no reference field was
\* or will be loaded, no error computed, no table printed.
C2_RejectionAborts ==
    SampleRejected =>
        /\ pc = "done"
        /\ ref_keys = <<>>
        /\ DOMAIN ref_reads = {}
        /\ DOMAIN errors = {}
        /\ err_calls = {}
        /\ table = Nothing

C2_Witness ==
    /\ SampleRejected
    /\ Len(sample_info) >= 1
    /\ exit = "abort:not_divisible"

\* C3: on a 1-D grid the sample opened last is accepted exactly when
\* n_ref > n_sample and n_sample divides n_ref (10 against 3 and 5 against 10 are
\* rejected), and every accepted sample carries r = n_ref / n_sample with
\* r * n_sample = n_ref and r >= 2.
C3_Accept1D ==
    /\ Validate1D(10, 3) # "ok"
    /\ Validate1D(5, 10) # "ok"
    /\ (grid_type = "1D" /\ last_sizes # Nothing /\ x_dim \in DOMAIN The(last_sizes)) =>
          LET n_ref == The(ds_ref).sizes[x_dim]
              n_sample == The(last_sizes)[x_dim]
          IN  LastAccepted <=> (n_ref > n_sample /\ n_sample > 0 /\ n_ref % n_sample = 0)
    /\ grid_type = "1D" =>
          \A i \in DOMAIN sample_info :
              LET r == sample_info[i].refinement[1]
              IN  /\ Len(sample_info[i].refinement) = 1
                  /\ r[2] = 1
                  /\ r[1] * sample_info[i].n = The(ds_ref).sizes[x_dim]
                  /\ r[1] >= 2

C3_Witness ==
    /\ grid_type = "1D"
    /\ Len(sample_info) = 2
    /\ sample_info[1].refinement = <<RInt(2)>>
    /\ sample_info[2].refinement = <<RInt(4)>>

\* C4: on a 2-D grid the sample opened last is accepted exactly when each axis is
\* strictly coarser than and divides the reference's; an accepted sample carries
\* (ry, rx) = (ny_ref / ny_sample, nx_ref / nx_sample).
C4_Accept2D ==
    /\ (grid_type = "2D" /\ last_sizes # Nothing
        /\ {x_dim, y_dim} \subseteq DOMAIN The(last_sizes)) =>
          LET ny_ref == The(ds_ref).sizes[y_dim]
              nx_ref == The(ds_ref).sizes[x_dim]
              ny_sample == The(last_sizes)[y_dim]
              nx_sample == The(last_sizes)[x_dim]
          IN  LastAccepted <=>
                 /\ ny_ref > ny_sample /\ nx_ref > nx_sample
                 /\ ny_sample > 0 /\ nx_sample > 0
                 /\ ny_ref % ny_sample = 0 /\ nx_ref % nx_sample = 0
    /\ grid_type = "2D" =>
          \A i \in DOMAIN sample_info :
              LET r == sample_info[i].refinement
              IN  /\ Len(r) = 2
                  /\ r[1][2] = 1 /\ r[2][2] = 1
                  /\ r[1][1] * sample_info[i].ny = The(ds_ref).sizes[y_dim]
                  /\ r[2][1] * sample_info[i].nx = The(ds_ref).sizes[x_dim]

C4_Witness ==
    /\ grid_type = "2D"
    /\ Len(sample_info) >= 1
    /\ sample_info[1].refinement = <<RInt(2), RInt(4)>>

\* C5: with a norm token other than "1", "2" or "inf", a call that reaches
\* compute_error aborts and prints no table.
C5_BadNormAborts ==
    (norm_error \notin Supported /\ err_calls # {}) =>
        (table = Nothing /\ exit # "return")

\* C6: a field that does not resolve in a sample gets a NaN entry, every other
\* entry of that sample is what its own data gives, and the run ends with the
\* table printed, "N/A" in the cells of the NaN entries.
C6_UnresolvedDegrades ==
    /\ (pc \in {"errors", "orders"} /\ last_reads # Nothing) =>
          \A key \in Range(ref_keys) :
              LET i == Len(errors[key])
                  rd == The(last_reads)[key]
              IN  IF rd.present
                  THEN errors[key][i] = PairError(key, sample_info[i], rd).err
                  ELSE IsNan(errors[key][i])
    /\ (pc = "done" /\ OrdersDone /\ SomeNaN) =>
          /\ table # Nothing
          /\ \A i \in DOMAIN The(table).rows : \A c \in DOMAIN ref_keys :
                IsNan(errors[ref_keys[c]][i]) => The(table).rows[i].cols[c].error.k = "N/A"

\* C7: an order entry is a finite number only between two positive errors and is
\* empty otherwise; it is never NaN or infinite.
C7_OrdersFiniteOrEmpty ==
    OrdersDone =>
        \A key \in DOMAIN orders : \A i \in DOMAIN orders[key] :
            LET o == orders[key][i]
                both == /\ i >= 2
                        /\ Positive(errors[key][i - 1])
                        /\ Positive(errors[key][i])
            IN  /\ o.k \in {"empty", "num", "log"}
                /\ o.k = "empty" <=> ~both

\* C8: a NaN error at index k empties the order entries k and k+1 of its field;
\* every other order entry is the value computed from its own two errors.
C8_NaNEmptiesAdjacent ==
    OrdersDone =>
        \A key \in DOMAIN orders :
            LET n == Len(errors[key]) IN
            /\ \A k \in 1..n : IsNan(errors[key][k]) =>
                  /\ orders[key][k] = Empty
                  /\ k < n => orders[key][k + 1] = Empty
            /\ \A i \in 2..n :
                  (~IsNan(errors[key][i - 1]) /\ ~IsNan(errors[key][i])) =>
                      orders[key][i] =
                          OrderEntry(errors[key][i - 1], errors[key][i],
                                     HRatio(grid_type, sample_info[i - 1], sample_info[i]))

C8_Witness ==
    /\ OrdersDone
    /\ Len(ref_keys) = 2
    /\ Len(orders[ref_keys[1]]) = 3
    /\ IsNan(errors[ref_keys[1]][1])
    /\ orders[ref_keys[1]][3].k = "num"
    /\ ~IsNan(errors[ref_keys[2]][1])

\* C9: with no time axis detected, a call that gets as far as the orders runs to
\* completion and prints the table.
C9_NoTimeAxisCompletes ==
    (time_dim = None /\ pc = "done" /\ OrdersDone) =>
        (exit = "return" /\ table # Nothing)

\* C10: with a time axis, the index is the last one of the reference's axis when
\* the argument is omitted and the argument itself when it is in range; it does
\* not change afterwards, and the reference and every sample are sliced at it.
C10_TimeIndexUsed ==
    /\ [][(pc = "start" /\ pc' # "done" /\ time_dim' # None) =>
             time_index' = IF time_index = Nothing
                           THEN Some(The(ds_ref').sizes[time_dim'] - 1)
                           ELSE time_index]_vars
    /\ [][pc # "start" => time_index' = time_index]_vars
    /\ [](time_dim # None =>
             /\ \A k \in ref_slices \cup sample_slices : time_index = Some(k)
             /\ \A key \in Range(ref_keys) : HasTime(key, time_dim) => ref_slices # {}
             /\ \A p \in err_calls : HasTime(p[2], time_dim) => sample_slices # {})

C10_Witness ==
    /\ time_dim # None
    /\ ref_slices = {1}
    /\ sample_slices = {1}
    /\ Cardinality(err_calls) >= 2

\* C11: with a time axis detected and a supplied time_index that is negative or
\* not below the length of the reference's time axis, the call ends at once: no
\* sample is opened, the reference is closed and no table is printed.
C11_BadTimeIndexAborts ==
    [][(/\ pc = "start"
        /\ time_dim' # None
        /\ time_index # Nothing
        /\ (The(time_index) < 0 \/ The(time_index) >= The(ds_ref').sizes[time_dim']))
       => (/\ pc' = "done"
           /\ exit' \in {"abort:time_index", "abort:no_spatial"}
           /\ handles' = <<>>
           /\ ref_handle' = "closed"
           /\ table' = Nothing)]_vars

C11_Witness ==
    /\ exit = "abort:time_index"
    /\ time_index = Some(-1)
    /\ nsamples >= 1
    /\ handles = <<>>
    /\ ref_handle = "closed"

\* C12: every field of ref_data was extracted from the reference exactly once,
\* before the sample loop, and the sample loop neither extracts it again nor
\* changes the cached array, whatever the number of samples.
C12_ReferenceReadOnce ==
    /\ [](ref_keys # <<>> =>
             /\ DOMAIN ref_reads = Range(ref_keys)
             /\ \A key \in Range(ref_keys) : ref_reads[key] = 1)
    /\ [](err_calls # {} => ref_keys # <<>>)
    /\ [][(pc \in {"errors", "orders", "print"}) =>
             (ref_reads' = ref_reads /\ ref_data' = ref_data /\ ref_keys' = ref_keys)]_vars

C12_Witness ==
    /\ pc = "done"
    /\ exit = "return"
    /\ Len(sample_info) = 3
    /\ Len(ref_keys) = 2
    /\ \A i \in 1..3 : <<i, ref_keys[1]>> \in err_calls
    /\ ref_reads[ref_keys[1]] = 1

\* ------------------------------------------------------------ properties of coarsen_grid

\* A direct call has returned or raised.
Called(fn) == call # Nothing /\ The(call).fn = fn /\ The(call).out # Nothing
CArgs == The(call).args
COut == The(The(call).out)
IsWhole(r) == r[2] = 1
\* r is a whole ratio >= 1 that divides n.
Divides(r, n) == IsWhole(r) /\ r[1] >= 1 /\ n % r[1] = 0

\* C13: for whole ratios dividing the fine sizes, coarsen_grid returns n/r cells
\* (ny/ry by nx/rx cells), each the mean of its own block of r (ry by rx)
\* consecutive fine cells, and every fine index lies in exactly one block.
C13_BlockMeans ==
    Called("coarsen_grid") =>
        LET f == CArgs.var_fine
            r == CArgs.refinement_ratios
        IN  /\ (f.rank = 1 /\ Divides(r[1], f.shape[1])) =>
                  LET rx == r[1][1]
                      n == f.shape[1]
                  IN  /\ COut.ok
                      /\ COut.val.rank = 1
                      /\ COut.val.shape = <<n \div rx>>
                      /\ Len(COut.val.v) = n \div rx
                      /\ \A i \in 1..(n \div rx) :
                            COut.val.v[i] = Mean([k \in 1..rx |-> f.v[(i - 1) * rx + k]])
                      /\ \A k \in 1..n :
                            Cardinality({i \in 1..Len(COut.val.v) :
                                            (i - 1) * rx < k /\ k <= i * rx}) = 1
            /\ (f.rank = 2 /\ Len(r) = 2 /\ Divides(r[1], f.shape[1])
                /\ Divides(r[2], f.shape[2])) =>
                  LET ry == r[1][1]
                      rx == r[2][1]
                      ny == f.shape[1]
                      nx == f.shape[2]
                  IN  /\ COut.ok
                      /\ COut.val.rank = 2
                      /\ COut.val.shape = <<ny \div ry, nx \div rx>>
                      /\ Len(COut.val.v) = ny \div ry
                      /\ \A j \in 1..(ny \div ry) :
                            /\ Len(COut.val.v[j]) = nx \div rx
                            /\ \A i \in 1..(nx \div rx) :
                                  COut.val.v[j][i] =
                                      Mean([k \in 1..(ry * rx) |->
                                              f.v[(j - 1) * ry + ((k - 1) \div rx) + 1]
                                                 [(i - 1) * rx + ((k - 1) % rx) + 1]])
                      /\ \A jj \in 1..ny : \A ii \in 1..nx :
                            Cardinality({c \in (1..(ny \div ry)) \X (1..(nx \div rx)) :
                                            /\ (c[1] - 1) * ry < jj /\ jj <= c[1] * ry
                                            /\ (c[2] - 1) * rx < ii /\ ii <= c[2] * rx}) = 1

C13_Witness ==
    /\ Called("coarsen_grid")
    /\ CArgs.var_fine.shape = <<4, 3>>
    /\ CArgs.var_fine = Ramp2D(4, 3)
    /\ CArgs.refinement_ratios = <<RInt(2), RInt(3)>>
    /\ COut.ok
    /\ COut.val.shape = <<2, 1>>

\* C14: coarsening a 1-D array whose n cells all hold c, by a whole ratio r
\* dividing n, gives n/r cells that all equal c exactly.
C14_ConstantExact ==
    Called("coarsen_grid") =>
        LET f == CArgs.var_fine
            r == CArgs.refinement_ratios[1]
        IN  (/\ f.rank = 1
             /\ f.shape[1] >= 1
             /\ Divides(r, f.shape[1])
             /\ \A k \in 1..Len(f.v) : f.v[k] = f.v[1]) =>
                /\ COut.ok
                /\ Len(COut.val.v) = f.shape[1] \div r[1]
                /\ \A i \in 1..Len(COut.val.v) : COut.val.v[i] = f.v[1]

\* C15: coarsen_grid(a + b, r) equals coarsen_grid(a, r) + coarsen_grid(b, r) cell
\* by cell whenever the ratio is valid for the shape of a and b.
C15_Linear ==
    (Called("coarsen_sum") /\ COut.a.ok) =>
        /\ COut.b.ok
        /\ COut.sum.ok
        /\ COut.sum.val = ArrAdd(COut.a.val, COut.b.val)

\* C16: with ratio 1 on every axis coarsen_grid returns an array of the shape and
\* the values of its input, for 1-D and 2-D inputs.
C16_RatioOneIdentity ==
    Called("coarsen_grid") =>
        LET f == CArgs.var_fine
            r == CArgs.refinement_ratios
        IN  (f.rank \in {1, 2} /\ Len(r) = f.rank /\ \A d \in 1..Len(r) : r[d] = RInt(1)) =>
                (COut.ok /\ COut.val = f)

C16_Witness ==
    /\ Called("coarsen_grid")
    /\ CArgs.var_fine.shape = <<2, 3>>
    /\ CArgs.var_fine = Ramp2D(2, 3)
    /\ CArgs.refinement_ratios = <<RInt(1), RInt(1)>>
    /\ COut.ok

\* The exact sum of float64 cells in units of 2^e0, e0 at most every exponent.
LeastExp(cells) ==
    IF cells = <<>> THEN 0
    ELSE CHOOSE e \in {cells[i][3] : i \in 1..Len(cells)} :
             \A i \in 1..Len(cells) : e <= cells[i][3]
RECURSIVE ExactSumTo(_, _, _)
ExactSumTo(cells, e0, k) ==
    IF k = 0 THEN <<>>
    ELSE BigAdd(ExactSumTo(cells, e0, k - 1), BigShl(cells[k][2], cells[k][3] - e0))
ExactSum(cells, e0) == ExactSumTo(cells, e0, Len(cells))
BlockSize(r) == IF Len(r) = 1 THEN r[1][1] ELSE r[1][1] * r[2][1]

\* a * r in float64, for a count r.
FMulInt(a, r) == RoundNearestEven(a[1], BigStrip(BigMulRec(a[2], r, 0)), a[3], FALSE)

\* C17: for valid ratios, the sum of the output cells times the block size equals
\* the sum of the fine cells, that is, the two arrays have the same mean: as exact
\* sums, as float64 sums, or as float64 means.
C17_Conservative ==
    (Called("coarsen_grid") /\ COut.ok /\ CArgs.var_fine.rank \in {1, 2}
     /\ \A d \in 1..CArgs.var_fine.rank : IsWhole(CArgs.refinement_ratios[d])) =>
        LET fine == Cells(CArgs.var_fine)
            out == Cells(COut.val)
            e0 == LeastExp(fine \o out)
            rs == SubSeq(CArgs.refinement_ratios, 1, CArgs.var_fine.rank)
        IN  \/ BigStrip(BigMulRec(ExactSum(out, e0), BlockSize(rs), 0)) = ExactSum(fine, e0)
            \/ FMulInt(FSum(out), BlockSize(rs)) = FSum(fine)
            \/ Mean(out) = Mean(fine)

\* C18: coarsen_grid raises, and returns no array, whenever a fine size is not
\* a multiple of the whole ratio of its axis.
C18_IndivisibleFails ==
    Called("coarsen_grid") =>
        LET f == CArgs.var_fine
            r == CArgs.refinement_ratios
            bad(d) == IsWhole(r[d]) /\ r[d][1] # 0 /\ f.shape[d] % Abs(r[d][1]) # 0
        IN  /\ (f.rank = 1 /\ bad(1)) => ~COut.ok
            /\ (f.rank = 2 /\ Len(r) = 2 /\ IsWhole(r[1]) /\ IsWhole(r[2])
                /\ (bad(1) \/ bad(2))) => ~COut.ok

C18_Witness ==
    /\ Called("coarsen_grid")
    /\ CArgs.var_fine.shape = <<2, 3>>
    /\ CArgs.var_fine = Ramp2D(2, 3)
    /\ CArgs.refinement_ratios = <<RInt(2), RInt(2)>>
    /\ COut = Raise("ValueError")

\* C19: coarsen_grid raises for every array of rank 3 or more and returns an array
\* only for rank 1 and rank 2.
C19_RankThreeFails ==
    Called("coarsen_grid") =>
        /\ CArgs.var_fine.rank >= 3 => ~COut.ok
        /\ COut.ok => CArgs.var_fine.rank \in {1, 2}

C19_Witness ==
    /\ Called("coarsen_grid")
    /\ CArgs.var_fine = Arr3(<<2, 2, 2>>)
    /\ COut = Raise("ValueError")

\* C20: coarsen_grid raises whenever a ratio it uses is not a whole number; it
\* never coarsens with the rounded value of such a ratio.
C20_FractionalRatioFails ==
    Called("coarsen_grid") =>
        LET f == CArgs.var_fine
            r == CArgs.refinement_ratios
        IN  (f.rank \in {1, 2} /\ Len(r) >= f.rank
             /\ \E d \in 1..f.rank : ~IsWhole(r[d])) => ~COut.ok

\* ------------------------------------------------------------ properties of compute_error

\* C21: for every array a, every cell volume and each of the norms "1", "2" and
\* "inf", compute_error(a, a, v, norm) returns exactly 0.
C21_SelfErrorZero ==
    (Called("compute_error") /\ CArgs.var_a.rank = CArgs.var_b.rank
     /\ CArgs.var_a = CArgs.var_b /\ CArgs.norm \in Supported) =>
        /\ COut.ok
        /\ COut.val = Val(RInt(0), IF CArgs.norm = "2" THEN 2 ELSE 1)

\* ------------------------------------------------------------ properties of the orders

\* x^k for an integer k.
RECURSIVE RPowNat(_, _)
RPowNat(x, k) == IF k = 0 THEN RInt(1) ELSE RMul(x, RPowNat(x, k - 1))
RPow(x, k) == IF k >= 0 THEN RPowNat(x, k) ELSE RDiv(RInt(1), RPowNat(x, -k))

\* The entry o is ln(e_prev / e_cur) / ln(h) for e = v^(1/root): a number p with
\* h^(p * root) = v_prev / v_cur, the quotient of the two logarithms left
\* unevaluated, or the result of dividing by ln(1) = 0.
IsLogRatio(o, v_prev, v_cur, root, h) ==
    LET q == RDiv(v_prev, v_cur)
    IN  IF h = RInt(1) THEN o.k \in {"inf", "-inf", "nan"}
        ELSE IF o.k = "num"
        THEN LET e == Rat(o.milli * root, 1000)
             IN  RPow(h, e[1]) = RPow(q, e[2])
        ELSE o = LogText(q, h, root)

\* C22: between two consecutive samples with positive errors the order entry is
\* ln(error[i-1] / error[i]) / ln(h_ratio), h_ratio being n[i] / n[i-1] in 1-D and
\* the mean of the x and y size ratios in 2-D; sizes 8 then 4 with errors 0.1 then
\* 0.4 give 2.000, and so do sizes 4 then 8 with errors 0.4 then 0.1.
C22_OrderFormula ==
    Called("orders") =>
        LET info == CArgs.sample_info
            errs == CArgs.errors
            h(i) == IF CArgs.grid_type = "1D" THEN Rat(info[i].n, info[i - 1].n)
                    ELSE RDiv(RAdd(Rat(info[i].nx, info[i - 1].nx),
                                   Rat(info[i].ny, info[i - 1].ny)), RInt(2))
        IN  /\ Len(COut) = Len(info)
            /\ \A i \in 2..Len(info) :
                  (Positive(errs[i - 1]) /\ Positive(errs[i])) =>
                      IsLogRatio(COut[i], errs[i - 1].v, errs[i].v, errs[i].root, h(i))
            /\ (/\ CArgs.grid_type = "1D" /\ Len(info) = 2
                /\ \/ /\ <<info[1].n, info[2].n>> = <<8, 4>>
                      /\ errs = <<Val(Rat(1, 10), 1), Val(Rat(4, 10), 1)>>
                   \/ /\ <<info[1].n, info[2].n>> = <<4, 8>>
                      /\ errs = <<Val(Rat(4, 10), 1), Val(Rat(1, 10), 1)>>)
               => COut[2] = Num(2000, FALSE)

C22_Witness ==
    /\ Called("orders")
    /\ CArgs.grid_type = "1D"
    /\ Len(CArgs.sample_info) = 2
    /\ <<CArgs.sample_info[1].n, CArgs.sample_info[2].n>> = <<8, 4>>
    /\ CArgs.errors = <<Val(Rat(1, 10), 1), Val(Rat(4, 10), 1)>>
    /\ COut = <<Empty, Num(2000, FALSE)>>

\* ------------------------------------------------------------ properties of compute_table, continued

\* The sample opened last lacks a spatial dimension of the reference.
LastMissesDim ==
    /\ last_sizes # Nothing
    /\ \/ x_dim \notin DOMAIN The(last_sizes)
       \/ (y_dim # None /\ y_dim \notin DOMAIN The(last_sizes))

\* C23: when a sample lacks a spatial dimension of the reference the call ends at
\* that sample: no reference field is loaded, no error is computed for any
\* sample and no table is printed.
C23_MissingDimAborts ==
    LastMissesDim =>
        /\ pc = "done"
        /\ exit = "abort:missing_dim"
        /\ ref_keys = <<>>
        /\ DOMAIN errors = {}
        /\ err_calls = {}
        /\ table = Nothing

C23_Witness ==
    /\ LastMissesDim
    /\ grid_type = "2D"
    /\ Len(sample_info) >= 1
    /\ exit = "abort:missing_dim"

\* C24: compute_table fails, before opening any sample and with the reference
\* closed, when the reference has neither an x-like nor a y-like dimension; when
\* it has at least one of the two it goes on with a 1-D or a 2-D grid.
C24_SpatialAxisDetection ==
    ds_ref # Nothing =>
        /\ (x_dim = None /\ y_dim = None) =>
              /\ pc = "done"
              /\ exit = "abort:no_spatial"
              /\ handles = <<>>
              /\ ref_handle = "closed"
              /\ table = Nothing
        /\ (x_dim # None \/ y_dim # None) =>
              /\ exit # "abort:no_spatial"
              /\ grid_type \in {"1D", "2D"}

\* C25: when a field of the reference has rank 3 or more after time slicing, a
\* call with at least one sample aborts and prints no table.
C25_UnsupportedRankAborts ==
    (/\ \E key \in Range(ref_keys) : ref_data[key].rank >= 3
     /\ sample_info # <<>>) =>
        /\ table = Nothing
        /\ exit # "return"

\* C26 as stated: when the table is printed, the error series and the order
\* series of every field of the table each hold exactly one entry per validated
\* sample, and the first order entry is empty.
C26_SeriesAligned ==
    pc = "print" =>
        \A key \in Range(ref_keys) :
            /\ Len(errors[key]) = Len(sample_info)
            /\ Len(orders[key]) = Len(sample_info)
            /\ orders[key][1] = Empty

\* C26 amended: each iteration of the sample loop appends to the series of every
\* field exactly one entry, that of the sample being processed, and leaves the
\* earlier entries alone; when the table is printed every error series holds one
\* entry per validated sample, and every order series starts with an empty entry
\* and holds one entry per validated sample, or the single empty entry when no
\* sample was given.
C26_SeriesAlignedAmended ==
    /\ [][(pc = "errors") =>
             \A key \in Range(ref_keys) :
                 LET n == Len(errors[key])
                 IN  /\ Len(errors'[key]) = n + 1
                     /\ SubSeq(errors'[key], 1, n) = errors[key]
                     /\ errors'[key][n + 1] =
                            PairError(key, sample_info[n + 1], The(last_reads')[key]).err]_vars
    /\ [](pc = "print" =>
             \A key \in Range(ref_keys) :
                 /\ Len(errors[key]) = Len(sample_info)
                 /\ Len(orders[key]) = IF sample_info = <<>> THEN 1 ELSE Len(sample_info)
                 /\ orders[key][1] = Empty)

C26_Witness ==
    /\ pc = "print"
    /\ Len(sample_info) = 3
    /\ Len(ref_keys) = 2
    /\ IsNan(errors[ref_keys[1]][1])
    /\ ~IsNan(errors[ref_keys[1]][2])
    /\ IsNan(errors[ref_keys[2]][3])
    /\ Len(orders[ref_keys[2]]) = 3

\* Lines 197-232 have run.
LoadDone == exit = "abort:no_variables" \/ DOMAIN errors # {}
\* The requested fields whose names are all variables of the reference.
InReference == {key \in Range(The(variables)) : Names(key) \subseteq Range(The(ds_ref).data_vars)}

\* C27: a requested field that does not resolve in the reference has no error
\* series, no order series and no column, while every field that resolves has
\* them; when no requested field resolves the call ends without a table, with
\* the reference and every sample closed.
C27_UnresolvedReferenceField ==
    LoadDone =>
        /\ Range(ref_keys) = InReference
        /\ DOMAIN ref_data = InReference
        /\ InReference # {} =>
              /\ exit # "abort:no_variables"
              /\ DOMAIN errors = InReference
              /\ OrdersDone => DOMAIN orders = InReference
              /\ table # Nothing =>
                    /\ Range(The(table).header) = InReference
                    /\ \A i \in DOMAIN The(table).rows :
                          Len(The(table).rows[i].cols) = Cardinality(InReference)
        /\ InReference = {} =>
              /\ pc = "done"
              /\ exit = "abort:no_variables"
              /\ table = Nothing
              /\ AllClosed

C27_Witness ==
    /\ variables = Some(<<"q", "u-h">>)
    /\ ref_keys = <<"u-h">>
    /\ Len(sample_info) = 2
    /\ table # Nothing
    /\ exit = "return"

\* ------------------------------------------------------------ properties of error

\* C28: on every return path of error(path1, path2) (normal completion,
\* dimension names differing, sizes differing, coordinates differing, no common
\* variable) both dataset handles are closed.
C28_InspectClosesHandles ==
    (Called("error")
     /\ COut.exit \in {"return", "return:names", "return:sizes", "return:coords",
                       "return:no_common"}) =>
        /\ The(call).h1 = "closed"
        /\ The(call).h2 = "closed"

\* The field key of the sample processed last carries the time dimension and the
\* sample's time axis is too short for the time index.
ShortTimeAxis(key) ==
    /\ The(last_reads)[key].present
    /\ HasTime(key, time_dim)
    /\ The(time_index) >= The(last_reads)[key].nt

\* C29: a sample whose time axis is shorter than the time index (which was
\* checked against the reference only) gets NaN for its time-dependent fields,
\* without compute_error being called and without ending the call; the run then
\* goes on to print the table with a row for every validated sample.
C29_ShortSampleTimeAxis ==
    /\ (pc \in {"errors", "orders"} /\ last_reads # Nothing) =>
          \A key \in Range(ref_keys) :
              ShortTimeAxis(key) =>
                  /\ IsNan(errors[key][Len(errors[key])])
                  /\ <<Len(errors[key]), key>> \notin err_calls
                  /\ exit = None
    /\ (time_dim # None /\ pc = "done" /\ OrdersDone) =>
          /\ exit = "return"
          /\ table # Nothing
          /\ Len(The(table).rows) = Len(sample_info)

C29_Witness ==
    /\ pc = "orders"
    /\ last_reads # Nothing
    /\ Len(sample_info) = 2
    /\ ShortTimeAxis(ref_keys[1])
    /\ ~IsNan(errors[ref_keys[1]][1])
    /\ IsNan(errors[ref_keys[1]][2])

\* ------------------------------------------------------------ coarsening in two steps

\* C30: for a 1-D array of n cells and whole ratios r1, r2 with r1 * r2 dividing
\* n, coarsening by r1 and then by r2 gives, cell by cell, what coarsening by
\* r1 * r2 gives.
C30_CoarseningComposes ==
    (Called("coarsen_twice")
     /\ Divides(RMul(CArgs.r1, CArgs.r2), CArgs.var_fine.shape[1])) =>
        /\ COut.direct.ok
        /\ COut.via.ok
        /\ COut.via.val = COut.direct.val

====
